---- MODULE Spec2Model ----
(***************************************************************************)
(* Model of src/suno/generate_music.py: the SunoGenerateMusic node.        *)
(*                                                                         *)
(* The specifications share the variables:                                 *)
(*   SpecValidate  - validate_before_node_run applied to every request of  *)
(*                   a bounded request space;                              *)
(*   SpecPayload   - _build_payload applied to every request of a bounded  *)
(*                   request space;                                        *)
(*   SpecExtract   - _extract_track_data applied to every completion       *)
(*                   payload of a bounded space;                           *)
(*   Spec          - the _process pipeline (credential, submit, poll,      *)
(*                   extract, materialize, assemble) against an            *)
(*                   environment that chooses every network outcome;       *)
(*   SpecPoll      - the poll loop with the seconds its calls take;        *)
(*   SpecFiles     - the saves of several nodes of one process into the    *)
(*                   static storage, with the clock that names the files.  *)
(***************************************************************************)
EXTENDS Integers, Sequences, FiniteSets, TLC

VARIABLES
    params,                  \* the node's input parameter values
    validation,              \* what validate_before_node_run returned
    pc,                      \* position of the node in _process
    parameter_output_values, \* self.parameter_output_values (a dict)
    parameter_values,        \* what self.set_parameter_value wrote ("status")
    task_id,                 \* local task_id of _process
    attempt,                 \* loop variable of _poll_for_completion
    completion_response,     \* what _poll_for_completion returned
    tracks,                  \* local tracks of _process
    raised,                  \* the exception _process raised to the host
    net,                     \* log of the network calls of this invocation
    last_poll,               \* what the last status query delivered
    last_save,               \* what the materialization just made went through
    payload,                 \* the request body _build_payload returned
    writes,                  \* assignments to each output slot since line 739
    now,                     \* time.time(), in seconds
    nodes,                   \* the nodes of the process and where each one is
    static_files             \* what save_static_file was called with

\* The variables of a single node's invocation, and those of the process.
node_vars == <<params, validation, pc, parameter_output_values, parameter_values,
               task_id, attempt, completion_response, tracks, raised, net,
               last_poll, last_save, payload, writes>>
process_vars == <<now, nodes, static_files>>
vars == <<node_vars, process_vars>>

(***************************************************************************)
(* Bounds of the model.                                                    *)
(***************************************************************************)
Slack == 1        \* string lengths reach Slack past each length limit
MaxEntries == 3   \* longest sunoData list the service returns
MaxClock == 1     \* int(time.time()) takes the values 0..MaxClock

(***************************************************************************)
(* Python values.  A JSON/Python value is a tagged record; a dict is a     *)
(* function whose DOMAIN is the set of its keys.  A str is a prefix of a   *)
(* named text: v names the text and n is the length of the prefix.         *)
(***************************************************************************)
JNull == [t |-> "null"]
JStr(s, n) == [t |-> "str", v |-> s, n |-> n]
JNum(k) == [t |-> "num", v |-> k]
JDict(f) == [t |-> "dict", v |-> f]
JList(s) == [t |-> "list", v |-> s]
EmptyDict == JDict([k \in {} |-> JNull])
EmptyStr == JStr("", 0)

\* isinstance(x, dict), isinstance(x, list)
IsDict(j) == j.t = "dict"
IsList(j) == j.t = "list"

\* d.get(k, default) on a dict d
Get(d, k, default) == IF k \in DOMAIN d.v THEN d.v[k] ELSE default

\* bool(x)
Truthy(j) ==
    CASE j.t = "null" -> FALSE
      [] j.t = "str" -> j.n > 0
      [] j.t = "num" -> j.v # 0
      [] j.t = "list" -> j.v # <<>>
      [] j.t = "dict" -> DOMAIN j.v # {}

\* s[:k]
Slice(s, k) == JStr(s.v, IF s.n > k THEN k ELSE s.n)

\* A message is a sequence of tokens: literal text and formatted values.
Lit(s) == [t |-> "lit", v |-> s]
\* f"{x}" / str(x)
Fmt(j) == IF j.t = "null" THEN Lit("None") ELSE j

\* An exception: its class and str(e).
Exc(type, msg) == [type |-> type, msg |-> msg]
None == <<>>
Some(x) == <<x>>

NodeName == "Suno Generate Music"

(***************************************************************************)
(* Input strings of the node: pad whitespace characters around core other  *)
(* characters (a string with core = 0 is empty or whitespace-only).        *)
(***************************************************************************)
Str(pad, core) == [pad |-> pad, core |-> core]
StrLen(s) == s.pad + s.core
strip(s) == Str(0, s.core)
NonEmpty(s) == StrLen(s) > 0

\* Class constants, lines 46-65.
PROMPT_LIMIT_SIMPLE == 500
TITLE_LIMIT == 80
MODELS == {"V5", "V4_5PLUS", "V4_5", "V4", "V3_5"}
PROMPT_LIMITS_CUSTOM(model) ==
    CASE model \in {"V3_5", "V4"} -> 3000
      [] model \in {"V4_5", "V4_5PLUS", "V5"} -> 5000
STYLE_LIMITS(model) ==
    CASE model \in {"V3_5", "V4"} -> 200
      [] model \in {"V4_5", "V4_5PLUS", "V5"} -> 1000

\* The checks of validate_before_node_run, one operator per condition.
StyleRequiredFails_nostrip(style) == ~NonEmpty(style)
StyleRequiredFails(style) == ~NonEmpty(strip(style))
TitleRequiredFails(title) == ~NonEmpty(strip(title))
PromptRequiredFails(instrumental, prompt) ==
    ~instrumental /\ ~NonEmpty(strip(prompt))
PromptTooLong(model, prompt) ==
    NonEmpty(prompt) /\ StrLen(prompt) > PROMPT_LIMITS_CUSTOM(model)
StyleTooLong_offbyone(model, style) ==
    NonEmpty(style) /\ StrLen(style) >= STYLE_LIMITS(model)
StyleTooLong(model, style) ==
    NonEmpty(style) /\ StrLen(style) > STYLE_LIMITS(model)
TitleTooLong(title) == NonEmpty(title) /\ StrLen(title) > TITLE_LIMIT
SimplePromptRequiredFails(prompt) == ~NonEmpty(strip(prompt))
SimplePromptTooLong(prompt) == StrLen(prompt) > PROMPT_LIMIT_SIMPLE

\* ValueError(f"{self.name}: ...") of validate_before_node_run
VErr(text, limit, model, current) ==
    [name |-> NodeName, text |-> text, limit |-> limit, model |-> model,
     current |-> current]
VReq(text) == VErr(text, 0, "", 0)

Opt(cond, e) == IF cond THEN <<e>> ELSE <<>>

\* validate_before_node_run: the list of exceptions, or None when empty.
validate_before_node_run(p) ==
    LET exceptions ==
          IF p.custom_mode
          THEN Opt(StyleRequiredFails(p.style),
                   VReq("Style is required in Custom Mode"))
            \o Opt(TitleRequiredFails(p.title),
                   VReq("Title is required in Custom Mode"))
            \o Opt(PromptRequiredFails(p.instrumental, p.prompt),
                   VReq("Prompt/Lyrics required in Custom Mode when not instrumental"))
            \o Opt(PromptTooLong(p.model, p.prompt),
                   VErr("Prompt exceeds {limit} character limit for {model}",
                        PROMPT_LIMITS_CUSTOM(p.model), p.model, StrLen(p.prompt)))
            \o Opt(StyleTooLong(p.model, p.style),
                   VErr("Style exceeds {limit} character limit for {model}",
                        STYLE_LIMITS(p.model), p.model, StrLen(p.style)))
            \o Opt(TitleTooLong(p.title),
                   VErr("Title exceeds {limit} character limit",
                        TITLE_LIMIT, "", StrLen(p.title)))
          ELSE Opt(SimplePromptRequiredFails(p.prompt),
                   VReq("Prompt is required in Simple Mode"))
            \o Opt(SimplePromptTooLong(p.prompt),
                   VErr("Prompt exceeds {limit} character limit in Simple Mode",
                        PROMPT_LIMIT_SIMPLE, "", StrLen(p.prompt)))
    IN  IF exceptions # <<>> THEN Some(exceptions) ELSE None

(***************************************************************************)
(* _build_payload.  A weight is a fixed-point number of thousandths:       *)
(* JNum(650) is 0.65.                                                      *)
(***************************************************************************)
\* The default of the three weights (lines 199, 211, 223) that lines 502,
\* 506 and 510 compare with.
DEFAULT_WEIGHT == 650

\* The thousandths ending in 5 that round(w, 2) rounds up: those whose
\* nearest double lies above the decimal tie, and the exact ties 0.375 and
\* 0.875 next to an even hundredth.
RoundsUp ==
    {5, 25, 35, 55, 65, 85, 95, 115, 135, 165, 195, 225, 255, 265, 275, 315,
     325, 335, 375, 385, 395, 405, 445, 455, 465, 505, 515, 525, 535, 545,
     555, 635, 645, 655, 665, 675, 685, 755, 765, 775, 785, 795, 805, 875,
     885, 895, 905, 915, 925, 935}

\* round(w, 2), as thousandths again.
round2(w) ==
    LET q == w.v \div 10
        r == w.v % 10
    IN  JNum(10 * (IF r < 5 THEN q
                   ELSE IF r > 5 THEN q + 1
                   ELSE IF w.v \in RoundsUp THEN q + 1 ELSE q))

\* Line 478: if prompt.strip() (also line 492 for negative_tags).
TextIncluded(text) == NonEmpty(strip(text))

\* Lines 482-489: style and title are looked at in custom mode only.
CustomTextIncluded_anymode(custom_mode, text) == NonEmpty(strip(text))
CustomTextIncluded(custom_mode, text) == custom_mode /\ NonEmpty(strip(text))

\* Line 497: if vocal_gender and vocal_gender != "auto".
VocalGenderIncluded(vocal_gender) ==
    Truthy(vocal_gender) /\ vocal_gender # JStr("auto", 4)

\* Lines 502, 506, 510: if weight and weight != 0.65.
WeightIncluded(weight) == Truthy(weight) /\ weight # JNum(DEFAULT_WEIGHT)

\* payload[k] = v under its if.
Key(cond, k, v) == IF cond THEN [x \in {k} |-> v] ELSE [x \in {} |-> v]
Merge(f, g) == [k \in DOMAIN f \cup DOMAIN g |-> IF k \in DOMAIN g THEN g[k] ELSE f[k]]

\* _build_payload: the request body as a dict.
build_payload(p) ==
    LET base == [customMode |-> p.custom_mode,
                 instrumental |-> p.instrumental,
                 model |-> p.model,
                 callBackUrl |-> "https://example.com/callback"]
        texts == Merge(Key(TextIncluded(p.prompt), "prompt", strip(p.prompt)),
                 Merge(Key(CustomTextIncluded(p.custom_mode, p.style), "style",
                           strip(p.style)),
                 Merge(Key(CustomTextIncluded(p.custom_mode, p.title), "title",
                           strip(p.title)),
                       Key(TextIncluded(p.negative_tags), "negativeTags",
                           strip(p.negative_tags)))))
        gender == Key(VocalGenderIncluded(p.vocal_gender), "vocalGender",
                      p.vocal_gender)
        weights == Merge(Key(WeightIncluded(p.style_weight), "styleWeight",
                             round2(p.style_weight)),
                   Merge(Key(WeightIncluded(p.weirdness_constraint),
                             "weirdnessConstraint", round2(p.weirdness_constraint)),
                         Key(WeightIncluded(p.audio_weight), "audioWeight",
                             round2(p.audio_weight))))
    IN  Merge(base, Merge(texts, Merge(gender, weights)))

(***************************************************************************)
(* The pipeline of _process.                                               *)
(***************************************************************************)
\* Class constants, lines 39-41.
POLLING_INTERVAL == 10
MAX_POLLING_ATTEMPTS == 36
DEFAULT_TIMEOUT == 30
\* The lyrics preview cutoff of line 806.
LyricsPreview == 50

\* Result of a call: a value or a raised exception.
Ok(v) == [ok |-> TRUE, val |-> v]
Raise(e) == [ok |-> FALSE, exc |-> e]

\* Server strings with their lengths.
Name(s) ==
    JStr(s, CASE s = "" -> 0
              [] s \in {"key", "msg"} -> 3
              [] s = "tags" -> 4
              [] s = "title" -> 5
              [] s = "Untitled" -> 8
              [] s = "Unknown error" -> 13
              [] s = "abc123" -> 6
              [] s \in {"SUCCESS", "PENDING", "UNKNOWN"} -> 7
              [] s = "TEXT_SUCCESS" -> 12
              [] s = "FIRST_SUCCESS" -> 13
              [] s \in {"CREATE_TASK_FAILED", "CALLBACK_EXCEPTION"} -> 18
              [] s = "SENSITIVE_WORD_ERROR" -> 20
              [] s = "GENERATE_AUDIO_FAILED" -> 21
              [] s = "chirp-v4" -> 8)

\* _set_safe_defaults
set_safe_defaults ==
    [status |-> "error",
     task_id |-> JNull,
     audio_track_1 |-> JNull,
     audio_track_2 |-> JNull,
     cover_image |-> JNull,
     generated_title |-> EmptyStr,
     tags |-> EmptyStr,
     lyrics |-> EmptyStr,
     result_details |-> << <<Lit("Generation failed")>> >>]

\* self._set_safe_defaults() on the dict `out`: all nine keys are assigned,
\* whatever out held.
set_safe_defaults_keeping_task_id(out) ==
    IF "task_id" \in DOMAIN out
    THEN [set_safe_defaults EXCEPT !.task_id = out.task_id]
    ELSE set_safe_defaults
set_safe_defaults_on(out) ==
    [k \in DOMAIN out \cup DOMAIN set_safe_defaults |->
        IF k \in DOMAIN set_safe_defaults THEN set_safe_defaults[k] ELSE out[k]]

\* _validate_api_key: get_secret returned `secret`.
validate_api_key_nonnull(secret) ==
    IF secret = JNull
    THEN Raise(Exc("ValueError",
               <<Lit("Missing SUNO_API_KEY. Please configure your Suno API key in Settings > Secrets.")>>))
    ELSE Ok(secret)
validate_api_key(secret) ==
    IF ~Truthy(secret)
    THEN Raise(Exc("ValueError",
               <<Lit("Missing SUNO_API_KEY. Please configure your Suno API key in Settings > Secrets.")>>))
    ELSE Ok(secret)

\* The envelope check of lines 543-545 and 589-591.
EnvelopeOk(body) == Get(body, "code", JNull) = JNum(200)
EnvelopeError(body) ==
    Exc("RuntimeError",
        <<Lit("API returned error: "), Fmt(Get(body, "msg", Name("Unknown error")))>>)

\* _submit_task: `http` is what requests.post and raise_for_status did.
submit_task(http) ==
    CASE http.kind = "timeout" ->
           Raise(Exc("RuntimeError",
                     <<Lit("Request timed out after "), JNum(DEFAULT_TIMEOUT),
                       Lit(" seconds")>>))
      [] http.kind = "error" ->
           Raise(Exc("RuntimeError", <<Lit("Request failed: "), Lit(http.text)>>))
      [] http.kind = "json" ->
           IF ~EnvelopeOk(http.body) THEN Raise(EnvelopeError(http.body))
           ELSE Ok(http.body)

NoneTypeGet == Exc("AttributeError", <<Lit("'NoneType' object has no attribute 'get'")>>)

\* Lines 750-753: the task id of the submission response.
TaskIdOf_unchecked(submission_response) ==
    LET data == Get(submission_response, "data", EmptyDict)
    IN  IF ~IsDict(data) THEN Raise(NoneTypeGet)
        ELSE Ok(Get(data, "taskId", JNull))
TaskIdOf(submission_response) ==
    LET data == Get(submission_response, "data", EmptyDict)
    IN  IF ~IsDict(data) THEN Raise(NoneTypeGet)
        ELSE LET tid == Get(data, "taskId", JNull)
             IN  IF ~Truthy(tid)
                 THEN Raise(Exc("RuntimeError", <<Lit("No task ID returned from API")>>))
                 ELSE Ok(tid)

\* Line 605: the statuses that end the loop with an error.
FAILED_STATES_three ==
    {Name("CREATE_TASK_FAILED"), Name("GENERATE_AUDIO_FAILED"),
     Name("CALLBACK_EXCEPTION")}
FAILED_STATES_withtext ==
    {Name("CREATE_TASK_FAILED"), Name("GENERATE_AUDIO_FAILED"),
     Name("CALLBACK_EXCEPTION"), Name("SENSITIVE_WORD_ERROR"), Name("TEXT_SUCCESS")}
FAILED_STATES ==
    {Name("CREATE_TASK_FAILED"), Name("GENERATE_AUDIO_FAILED"),
     Name("CALLBACK_EXCEPTION"), Name("SENSITIVE_WORD_ERROR")}

\* Line 606: data.get("errorMessage", f"Task failed with status: {task_status}")
ErrorMessageOf(data, task_status) ==
    IF "errorMessage" \in DOMAIN data.v
    THEN <<Fmt(data.v["errorMessage"])>>
    ELSE <<Lit("Task failed with status: "), Fmt(task_status)>>

\* Line 598: the progress text written by set_parameter_value("status", ...)
StatusMsg(task_status, n) ==
    <<Lit("Status: "), Fmt(task_status), Lit(" ("), JNum(n), Lit("/"),
      JNum(MAX_POLLING_ATTEMPTS), Lit(")")>>

\* Lines 611-613: a RequestException of the query is logged and swallowed.
OnRequestException_raise(http) ==
    [step |-> "raise",
     exc |-> Exc("RuntimeError", <<Lit("Request failed: "), Lit(http.text)>>),
     status |-> None]
OnRequestException(http) == [step |-> "continue", status |-> None]

\* Lines 585-609: what the loop does with a response body.  step is "return",
\* "raise" or "continue"; status is the progress text written, if one was.
OnStatusData(body, n) ==
    IF ~EnvelopeOk(body)
    THEN [step |-> "raise", exc |-> EnvelopeError(body), status |-> None]
    ELSE LET data == Get(body, "data", EmptyDict)
         IN  IF ~IsDict(data)
             THEN [step |-> "raise", exc |-> NoneTypeGet, status |-> None]
             ELSE LET task_status == Get(data, "status", EmptyStr)
                      msg == Some(StatusMsg(task_status, n))
                  IN  IF task_status = Name("SUCCESS")
                      THEN [step |-> "return", val |-> body, status |-> msg]
                      ELSE IF task_status \in FAILED_STATES
                      THEN [step |-> "raise",
                            exc |-> Exc("RuntimeError",
                                        <<Lit("Generation failed: ")>>
                                        \o ErrorMessageOf(data, task_status)),
                            status |-> msg]
                      ELSE [step |-> "continue", status |-> msg]

\* One iteration of the loop of _poll_for_completion after its sleep, lines
\* 576-613: `http` is what requests.get and raise_for_status did and n the
\* 1-based number of the attempt.
PollIteration_lenient(http, n) ==
    IF http.kind # "json" \/ ~EnvelopeOk(http.body) THEN OnRequestException(http)
    ELSE OnStatusData(http.body, n)
PollIteration(http, n) ==
    IF http.kind # "json" THEN OnRequestException(http)
    ELSE OnStatusData(http.body, n)

\* Lines 615-618.
PollTimeout ==
    Exc("RuntimeError",
        <<Lit("Task did not complete within "),
          JNum(MAX_POLLING_ATTEMPTS * POLLING_INTERVAL), Lit(" seconds. "),
          Lit("The task may still be processing - check back with the task_id later.")>>)

\* _extract_track_data, lines 655-666: the record built from one entry.
TrackOf(item) ==
    [audio_url |-> Get(item, "audioUrl", JNull),
     image_url |-> Get(item, "imageUrl", JNull),
     title |-> Get(item, "title", JNull),
     duration |-> Get(item, "duration", JNull),
     tags |-> Get(item, "tags", JNull),
     prompt |-> Get(item, "prompt", JNull),
     model_name |-> Get(item, "modelName", JNull)]

\* Line 665: only entries with an audio URL are kept.
HasAudio_any(track) == TRUE
HasAudio(track) == Truthy(track.audio_url)

\* The loop of lines 655-666 over the entries from position i on.
RECURSIVE ExtractFrom(_, _)
ExtractFrom(items, i) ==
    IF i > Len(items) THEN <<>>
    ELSE LET track == TrackOf(items[i])
         IN  (IF HasAudio(track) THEN <<track>> ELSE <<>>) \o ExtractFrom(items, i + 1)

\* _extract_track_data: item.get on an entry that is no dict raises.
extract_track_data(response_data) ==
    LET data == Get(response_data, "data", EmptyDict)
    IN  IF ~IsDict(data) THEN Ok(<<>>)
        ELSE LET response == Get(data, "response", EmptyDict)
             IN  IF ~IsDict(response) THEN Ok(<<>>)
                 ELSE LET suno_data == Get(response, "sunoData", JList(<<>>))
                      IN  IF ~IsList(suno_data) THEN Ok(<<>>)
                          ELSE IF \E i \in 1..Len(suno_data.v) : ~IsDict(suno_data.v[i])
                          THEN Raise(NoneTypeGet)
                          ELSE Ok(ExtractFrom(suno_data.v, 1))

\* _download_bytes_from_url: the bytes, or None when anything raised.
\* dl is what requests.get and raise_for_status did: "content", "empty"
\* (a body of no bytes) or "fail".
download_bytes_from_url(dl) == IF dl = "fail" THEN "None" ELSE dl

\* Lines 692 and 718: the generated file names.
AudioFilename(track_index, ts) ==
    <<Lit("suno_track"), JNum(track_index), Lit("_"), JNum(ts), Lit(".mp3")>>
CoverFilename(ts) == <<Lit("suno_cover_"), JNum(ts), Lit(".jpeg")>>

\* What save_static_file returns for a file name.
SavedUrl(filename) == [t |-> "static_url", file |-> filename]

Artifact(class, value, name) == [t |-> class, value |-> value, name |-> name]

\* Lines 687-689 and 713-715: no bytes, no save.
NoBytes(bytes) == bytes \in {"None", "empty"}

\* _save_audio_from_url: sv is what save_static_file did ("ok" or "raise")
\* and ts the value of int(time.time()).
save_audio_from_url_reraise(audio_url, track_index, dl, sv, ts) ==
    IF NoBytes(download_bytes_from_url(dl))
    THEN Ok(Artifact("AudioUrlArtifact", audio_url, None))
    ELSE IF sv = "raise" THEN Raise(Exc("OSError", <<Lit("save_static_file failed")>>))
    ELSE Ok(Artifact("AudioUrlArtifact", SavedUrl(AudioFilename(track_index, ts)),
                     Some(AudioFilename(track_index, ts))))
save_audio_from_url(audio_url, track_index, dl, sv, ts) ==
    IF NoBytes(download_bytes_from_url(dl))
    THEN Ok(Artifact("AudioUrlArtifact", audio_url, None))
    ELSE IF sv = "raise"
    THEN Ok(Artifact("AudioUrlArtifact", audio_url, None))
    ELSE Ok(Artifact("AudioUrlArtifact", SavedUrl(AudioFilename(track_index, ts)),
                     Some(AudioFilename(track_index, ts))))

\* _save_image_from_url
save_image_from_url(image_url, dl, sv, ts) ==
    IF NoBytes(download_bytes_from_url(dl))
    THEN Ok(Artifact("ImageUrlArtifact", image_url, None))
    ELSE IF sv = "raise"
    THEN Ok(Artifact("ImageUrlArtifact", image_url, None))
    ELSE Ok(Artifact("ImageUrlArtifact", SavedUrl(CoverFilename(ts)),
                     Some(CoverFilename(ts))))

\* x or default
OrElse(x, default) == IF Truthy(x) THEN x ELSE default

\* Lines 802-818: the summary, or the TypeError of len(None) at line 806.
ResultLines(trks, tid) ==
    LET first == trks[1]
        TrackLines(i) ==
            <<  <<JNum(i), Lit(". Duration: "), Fmt(trks[i].duration), Lit("s")>>,
                <<Lit("   Audio: "), Fmt(trks[i].audio_url)>> >>
            \o (IF i < Len(trks) THEN << <<Lit("")>> >> ELSE <<>>)
        RECURSIVE Details(_)
        Details(i) == IF i > Len(trks) THEN <<>> ELSE TrackLines(i) \o Details(i + 1)
    IN  IF first.prompt.t # "str"
        THEN Raise(Exc("TypeError", <<Lit("object of type 'NoneType' has no len()")>>))
        ELSE Ok(<<  <<Lit("Generated "), JNum(Len(trks)), Lit(" track variation(s)")>>,
                    <<Lit("Title: "), Fmt(first.title)>>,
                    <<Lit("Tags: "), Fmt(first.tags)>>,
                    IF first.prompt.n > LyricsPreview
                    THEN <<Lit("Lyrics: "), Slice(first.prompt, LyricsPreview), Lit("...")>>
                    ELSE <<Lit("Lyrics: "), first.prompt>>,
                    <<Lit("Task ID: "), Fmt(tid)>>,
                    <<Lit("Model: "), Fmt(first.model_name)>>,
                    <<Lit("")>>,
                    <<Lit("Track Details:")>> >>
                \o Details(1))

\* Lines 822-827: the except clause of _process; what it leaves in the
\* outputs and what it raises to the host.
except_handler_noreset(out, e) ==
    [outputs |-> [out EXCEPT !.status = "error",
                             !.result_details = << <<Lit("ERROR: ")>> \o e.msg >>],
     raised |-> Exc("RuntimeError", <<Lit(NodeName), Lit(": ")>> \o e.msg)]
except_handler_bare(out, e) ==
    [outputs |-> [set_safe_defaults EXCEPT
                    !.result_details = << <<Lit("ERROR: ")>> \o e.msg >>],
     raised |-> e]
except_handler(out, e) ==
    [outputs |-> [set_safe_defaults EXCEPT
                    !.result_details = << <<Lit("ERROR: ")>> \o e.msg >>],
     raised |-> Exc("RuntimeError", <<Lit(NodeName), Lit(": ")>> \o e.msg)]

(***************************************************************************)
(* The environment: what the secret store, the remote service, the         *)
(* downloads and the static storage can answer.                            *)
(***************************************************************************)
Secrets == {JNull, EmptyStr, Name("key")}

Dict1(k, v) == JDict([x \in {k} |-> v])
Dict2(k1, v1, k2, v2) == JDict([x \in {k1, k2} |-> IF x = k1 THEN v1 ELSE v2])

HttpError == [kind |-> "error", text |-> "connection error"]
HttpTimeout == [kind |-> "timeout", text |-> "read timed out"]
Json(body) == [kind |-> "json", body |-> body]

RejectedBodies ==
    {Dict2("code", JNum(500), "msg", Name("msg")), Dict1("code", JNum(500))}

SubmitResponses ==
    {HttpTimeout, HttpError}
    \cup {Json(b) : b \in RejectedBodies}
    \cup {Json(Dict2("code", JNum(200), "data", d)) :
            d \in {JNull, EmptyDict, Dict1("taskId", JNull),
                   Dict1("taskId", EmptyStr), Dict1("taskId", Name("abc123"))}}
    \cup {Json(Dict1("code", JNum(200)))}

UrlName(kind, i) ==
    CASE kind = "audio" -> <<"audio1", "audio2", "audio3", "audio4", "audio5">>[i]
      [] kind = "image" -> <<"image1", "image2", "image3", "image4", "image5">>[i]
Url(kind, i) == JStr(UrlName(kind, i), 6)

\* The entries the service puts into sunoData, by what they lack.
FirstKinds == {"full", "long", "bare", "nometa", "noprompt", "noaudio", "null"}
LaterKinds == {"full", "noaudio"}
FullEntry(i, lyrics) ==
    [audioUrl |-> Url("audio", i), imageUrl |-> Url("image", i),
     title |-> Name("title"), duration |-> JNum(120 + i), tags |-> Name("tags"),
     prompt |-> lyrics, modelName |-> Name("chirp-v4")]
Restrict(f, keys) == [k \in keys |-> f[k]]
Entry(kind, i) ==
    LET full == FullEntry(i, JStr("lyrics", LyricsPreview))
    IN  CASE kind = "full" -> JDict(full)
          [] kind = "long" -> JDict(FullEntry(i, JStr("lyrics", LyricsPreview + 1)))
          [] kind = "bare" -> JDict(Restrict(full, {"audioUrl"}))
          [] kind = "nometa" -> JDict(Restrict(full, {"audioUrl", "prompt", "duration"}))
          [] kind = "noprompt" -> JDict(FullEntry(i, JNull))
          [] kind = "noaudio" -> JDict(Restrict(full, DOMAIN full \ {"audioUrl"}))
          [] kind = "emptyaudio" -> JDict([full EXCEPT !.audioUrl = EmptyStr])
          [] kind = "null" -> JNull
          [] kind = "text" -> Name("msg")

EntryLists ==
    UNION {{[i \in 1..n |-> Entry(ks[i], i)] :
              ks \in {f \in [1..n -> FirstKinds] :
                        \A i \in 2..n : f[i] \in LaterKinds}} : n \in 0..MaxEntries}

\* The completion payloads handed to _extract_track_data: each level of
\* data.response.sunoData absent, null or of another type, and the lists of
\* entries with and without an audio URL, of null and of text entries.
ExtractKinds == {"full", "bare", "noaudio", "emptyaudio", "null", "text"}
ExtractLists ==
    UNION {{[i \in 1..n |-> Entry(ks[i], i)] : ks \in [1..n -> ExtractKinds]} :
             n \in 0..MaxEntries}
ExtractInputs ==
    LET Odd == {JNull, Name("msg")}
        Responses == {EmptyDict} \cup {Dict1("sunoData", x) : x \in Odd \cup {EmptyDict}}
                     \cup {Dict1("sunoData", JList(l)) : l \in ExtractLists}
        Datas == {EmptyDict} \cup {Dict1("response", x) : x \in Odd \cup {JList(<<>>)}}
                 \cup {Dict1("response", r) : r \in Responses}
    IN  {Dict1("code", JNum(200))}
        \cup {Dict2("code", JNum(200), "data", x) : x \in Odd \cup {JList(<<>>)}}
        \cup {Dict2("code", JNum(200), "data", d) : d \in Datas}

\* data.response of a SUCCESS response.
SuccessData ==
    {Dict1("status", Name("SUCCESS")),
     Dict2("status", Name("SUCCESS"), "response", JNull),
     Dict2("status", Name("SUCCESS"), "response", EmptyDict),
     Dict2("status", Name("SUCCESS"), "response", Dict1("sunoData", JNull))}
    \cup {Dict2("status", Name("SUCCESS"), "response", Dict1("sunoData", JList(l))) :
            l \in EntryLists}

\* The failure sub-states of the service's record-info documentation.
ServiceFailures ==
    {Name(s) : s \in {"CREATE_TASK_FAILED", "GENERATE_AUDIO_FAILED",
                      "CALLBACK_EXCEPTION", "SENSITIVE_WORD_ERROR"}}

FailureData ==
    UNION {{Dict1("status", s),
            Dict2("status", s, "errorMessage", JNull),
            Dict2("status", s, "errorMessage", Name("msg"))} : s \in ServiceFailures}

ProgressData ==
    {EmptyDict, Dict1("status", JNull)}
    \cup {Dict1("status", Name(s)) :
            s \in {"PENDING", "TEXT_SUCCESS", "FIRST_SUCCESS", "UNKNOWN"}}

PollResponses ==
    {HttpError, HttpTimeout}
    \cup {Json(b) : b \in RejectedBodies}
    \cup {Json(Dict1("code", JNum(200))), Json(Dict2("code", JNum(200), "data", JNull))}
    \cup {Json(Dict2("code", JNum(200), "data", d)) :
            d \in SuccessData \cup FailureData \cup ProgressData}

\* A download and the save that follows it.
SaveOutcomes ==
    {[dl |-> "content", sv |-> "ok"], [dl |-> "content", sv |-> "raise"],
     [dl |-> "empty", sv |-> "none"], [dl |-> "fail", sv |-> "none"]}

(***************************************************************************)
(* Requests.                                                               *)
(***************************************************************************)
Lengths(lims) == (0..Slack) \cup UNION {(l - Slack + 1)..(l + Slack) : l \in lims}
\* Strings of content only, of whitespace only, and of one whitespace
\* character before content of exactly a limit's length.
Strings(lims) ==
    {Str(0, n) : n \in Lengths(lims)} \cup {Str(n, 0) : n \in Lengths(lims)}
    \cup {Str(1, l) : l \in lims}

Requests ==
    [custom_mode : BOOLEAN, instrumental : BOOLEAN, model : MODELS,
     prompt : Strings({PROMPT_LIMIT_SIMPLE} \cup {PROMPT_LIMITS_CUSTOM(m) : m \in MODELS}),
     style : Strings({STYLE_LIMITS(m) : m \in MODELS}),
     title : Strings({TITLE_LIMIT})]

\* The parameter values _build_payload reads.  The texts: empty, whitespace
\* only, content only, content inside whitespace.
TextSamples == {Str(0, 0), Str(1, 0), Str(0, 1), Str(2, 1)}
\* vocal_gender: unset, empty, and the three choices of line 177.
VocalGenders == {JNull, EmptyStr, JStr("auto", 4), JStr("m", 1), JStr("f", 1)}
\* Weights of the sliders' range 0.0 .. 1.0 (lines 204, 216, 228), in
\* thousandths: the ends, the default and its neighbours, ties and others.
WeightSamples == {JNum(k) : k \in {0, 1, 4, 5, 6, 15, 125, 649, 650, 651, 655, 1000}}

\* The request of the pipeline's runs: one that validation lets through.
RunRequest ==
    [custom_mode |-> FALSE, instrumental |-> FALSE, model |-> "V5",
     prompt |-> Str(0, 1), style |-> Str(0, 0), title |-> Str(0, 0),
     negative_tags |-> Str(0, 0), vocal_gender |-> JStr("auto", 4),
     style_weight |-> JNum(DEFAULT_WEIGHT),
     weirdness_constraint |-> JNum(DEFAULT_WEIGHT),
     audio_weight |-> JNum(DEFAULT_WEIGHT)]

\* Every combination of the texts and flags with the weights at their
\* default, and every combination of the weights with the run's texts.
BuildRequests ==
    [custom_mode : BOOLEAN, instrumental : BOOLEAN, model : MODELS,
     prompt : TextSamples, style : TextSamples, title : TextSamples,
     negative_tags : TextSamples, vocal_gender : VocalGenders,
     style_weight : {JNum(DEFAULT_WEIGHT)},
     weirdness_constraint : {JNum(DEFAULT_WEIGHT)},
     audio_weight : {JNum(DEFAULT_WEIGHT)}]
    \cup {[RunRequest EXCEPT !.style_weight = w[1], !.weirdness_constraint = w[2],
                             !.audio_weight = w[3]] :
            w \in WeightSamples \X WeightSamples \X WeightSamples}

\* The output slots and the count of the assignments to each.
Slots == {"status", "task_id", "audio_track_1", "audio_track_2", "cover_image",
          "generated_title", "tags", "lyrics", "result_details"}
NoWrites == [s \in Slots |-> 0]
Written(w, S) == [s \in Slots |-> w[s] + (IF s \in S THEN 1 ELSE 0)]

NoCalls == [secret |-> None, submit |-> 0, submitted |-> "none", sleep |-> 0,
            query |-> 0, terminal |-> 0, download |-> <<>>, save |-> 0]
NoPoll == [kind |-> "none", envelope_ok |-> FALSE, data_ok |-> FALSE,
           status |-> JNull, error_message |-> "absent"]
NoSave == [slot |-> "none", url |-> JNull, dl |-> "none", sv |-> "none"]

\* What the submission delivered, for the record.
SubmitView(http) ==
    IF http.kind # "json" THEN http.kind
    ELSE IF Get(http.body, "code", JNull) # JNum(200) THEN "rejected"
    ELSE LET data == Get(http.body, "data", EmptyDict)
         IN  IF IsDict(data) /\ "taskId" \in DOMAIN data.v
                /\ data.v["taskId"] \notin {JNull, EmptyStr}
             THEN "accepted" ELSE "no_task_id"

\* What a status query delivered, for the record.
PollView(http) ==
    IF http.kind # "json" THEN [NoPoll EXCEPT !.kind = http.kind]
    ELSE LET data == Get(http.body, "data", EmptyDict)
             ok == Get(http.body, "code", JNull) = JNum(200)
         IN  [kind |-> "json",
              envelope_ok |-> ok,
              data_ok |-> ok /\ IsDict(data),
              status |-> IF ok /\ IsDict(data) THEN Get(data, "status", EmptyStr) ELSE JNull,
              error_message |->
                 IF ok /\ IsDict(data) /\ "errorMessage" \in DOMAIN data.v
                 THEN (IF data.v["errorMessage"] = JNull THEN "null" ELSE "text")
                 ELSE "absent"]

TypeOK ==
    /\ pc \in {"idle", "submit", "sleep", "query", "extract", "audio1", "cover",
               "audio2", "complete", "summary", "done", "failed",
               "extracted", "raised"}
    /\ attempt \in 0..MAX_POLLING_ATTEMPTS

(***************************************************************************)
(* SpecValidate: validate_before_node_run on every request.                *)
(***************************************************************************)
InitCommon ==
    /\ pc = "idle"
    /\ parameter_output_values = EmptyDict.v
    /\ parameter_values = EmptyDict.v
    /\ task_id = JNull
    /\ attempt = 0
    /\ completion_response = JNull
    /\ tracks = <<>>
    /\ raised = None
    /\ net = NoCalls
    /\ last_poll = NoPoll
    /\ last_save = NoSave
    /\ payload = None
    /\ writes = NoWrites
    /\ now = 0


\* A specification of a single node has no other node and stores nothing.
Alone ==
    /\ nodes = [n \in {} |-> [pc |-> "idle", wake |-> 0, run |-> 0]]
    /\ static_files = {}

InitValidate ==
    /\ params \in Requests
    /\ validation = [ran |-> FALSE, result |-> None]
    /\ InitCommon
    /\ Alone

Validate ==
    /\ ~validation.ran
    /\ validation' = [ran |-> TRUE, result |-> validate_before_node_run(params)]
    /\ UNCHANGED <<process_vars, payload, writes, params, pc, parameter_output_values, parameter_values, task_id,
                   attempt, completion_response, tracks, raised, net,
                   last_poll, last_save>>

NextValidate == Validate

SpecValidate == InitValidate /\ [][NextValidate]_vars

(***************************************************************************)
(* SpecPayload: _build_payload on every request.                           *)
(***************************************************************************)
InitPayload ==
    /\ params \in BuildRequests
    /\ validation = [ran |-> FALSE, result |-> None]
    /\ InitCommon
    /\ Alone

BuildPayload ==
    /\ payload = None
    /\ payload' = Some(build_payload(params))
    /\ UNCHANGED <<process_vars, params, validation, pc, parameter_output_values,
                   parameter_values, task_id, attempt, completion_response,
                   tracks, raised, net, last_poll, last_save, writes>>

NextPayload == BuildPayload

SpecPayload == InitPayload /\ [][NextPayload]_vars

(***************************************************************************)
(* SpecExtract: _extract_track_data on every completion payload.           *)
(***************************************************************************)
InitExtract ==
    /\ params = RunRequest
    /\ validation = [ran |-> FALSE, result |-> None]
    /\ pc = "extract"
    /\ completion_response \in ExtractInputs
    /\ parameter_output_values = EmptyDict.v
    /\ parameter_values = EmptyDict.v
    /\ task_id = JNull
    /\ attempt = 0
    /\ tracks = <<>>
    /\ raised = None
    /\ net = NoCalls
    /\ last_poll = NoPoll
    /\ last_save = NoSave
    /\ payload = None
    /\ writes = NoWrites
    /\ now = 0
    /\ Alone

\* The call of _extract_track_data: the list it returns, or what it raises.
ExtractTracks ==
    /\ pc = "extract"
    /\ LET got == extract_track_data(completion_response)
       IN  IF got.ok
           THEN tracks' = got.val /\ pc' = "extracted" /\ UNCHANGED raised
           ELSE raised' = Some(got.exc) /\ pc' = "raised" /\ UNCHANGED tracks
    /\ UNCHANGED <<process_vars, params, validation, parameter_output_values,
                   parameter_values, task_id, attempt, completion_response, net,
                   last_poll, last_save, payload, writes>>

NextExtract == ExtractTracks

SpecExtract == InitExtract /\ [][NextExtract]_vars

(***************************************************************************)
(* Spec: the invocations of _process.                                      *)
(***************************************************************************)
Init ==
    /\ params = RunRequest
    /\ validation = [ran |-> TRUE, result |-> validate_before_node_run(RunRequest)]
    /\ InitCommon
    /\ Alone

\* The except clause of _process taken with exception e, the outputs being out.
\* Line 823 assigns every slot and line 825 result_details once more.
FailedFrom(out, w, e) ==
    LET h == except_handler(out, e)
    IN  /\ parameter_output_values' = h.outputs
        /\ writes' = Written(Written(w, Slots), {"result_details"})
        /\ raised' = Some(h.raised)
        /\ pc' = "failed"
Failed(e) == FailedFrom(parameter_output_values, writes, e)

\* Lines 739-746: defaults, credential, first progress text.
Begin ==
    /\ pc \in {"idle", "done", "failed"}
    /\ validation.result = None
    /\ \E secret \in Secrets :
         LET key == validate_api_key(secret)
         IN  /\ net' = [NoCalls EXCEPT !.secret = Some(secret)]
             /\ IF key.ok
                THEN /\ parameter_output_values' =
                           set_safe_defaults_on(parameter_output_values)
                     /\ writes' = NoWrites
                     /\ parameter_values' = [status |-> <<Lit("Submitting task...")>>]
                     /\ raised' = None
                     /\ pc' = "submit"
                ELSE /\ FailedFrom(set_safe_defaults_on(parameter_output_values),
                                   NoWrites, key.exc)
                     /\ UNCHANGED parameter_values
    /\ task_id' = JNull
    /\ attempt' = 0
    /\ completion_response' = JNull
    /\ tracks' = <<>>
    /\ last_poll' = NoPoll
    /\ last_save' = NoSave
    /\ payload' = None
    /\ UNCHANGED <<process_vars, params, validation>>

\* Lines 749-759: submission and the task id.
Submit_retrying ==
    /\ pc = "submit"
    /\ \E http \in SubmitResponses :
         LET sent == submit_task(http)
             tid == IF sent.ok THEN TaskIdOf(sent.val) ELSE sent
         IN  /\ net' = [net EXCEPT !.submit = @ + 1, !.submitted = SubmitView(http)]
             /\ payload' = Some(build_payload(params))
             /\ IF tid.ok
                THEN /\ parameter_output_values' =
                           [parameter_output_values EXCEPT !.task_id = tid.val]
                     /\ writes' = Written(writes, {"task_id"})
                     /\ task_id' = tid.val
                     /\ parameter_values' = [status |-> <<Lit("Generating music...")>>]
                     /\ pc' = "sleep"
                     /\ UNCHANGED raised
                ELSE IF http.kind = "timeout" /\ net.submit = 0
                THEN UNCHANGED <<pc, parameter_output_values, writes, raised,
                                 task_id, parameter_values>>
                ELSE /\ Failed(tid.exc)
                     /\ UNCHANGED <<task_id, parameter_values>>
    /\ UNCHANGED <<process_vars, params, validation, attempt, completion_response, tracks,
                   last_poll, last_save>>
Submit ==
    /\ pc = "submit"
    /\ \E http \in SubmitResponses :
         LET sent == submit_task(http)
             tid == IF sent.ok THEN TaskIdOf(sent.val) ELSE sent
         IN  /\ net' = [net EXCEPT !.submit = @ + 1, !.submitted = SubmitView(http)]
             /\ payload' = Some(build_payload(params))
             /\ IF tid.ok
                THEN /\ parameter_output_values' =
                           [parameter_output_values EXCEPT !.task_id = tid.val]
                     /\ writes' = Written(writes, {"task_id"})
                     /\ task_id' = tid.val
                     /\ parameter_values' = [status |-> <<Lit("Generating music...")>>]
                     /\ pc' = "sleep"
                     /\ UNCHANGED raised
                ELSE /\ Failed(tid.exc)
                     /\ UNCHANGED <<task_id, parameter_values>>
    /\ UNCHANGED <<process_vars, params, validation, attempt, completion_response, tracks,
                   last_poll, last_save>>

\* Line 574: time.sleep(POLLING_INTERVAL) at the head of an iteration; the
\* clock is left to the action that takes the step.
SleepStep ==
    /\ pc = "sleep"
    /\ attempt < MAX_POLLING_ATTEMPTS
    /\ net' = [net EXCEPT !.sleep = @ + 1]
    /\ pc' = "query"
    /\ UNCHANGED <<nodes, static_files, params, validation, parameter_output_values,
                   parameter_values, task_id, attempt, completion_response,
                   tracks, raised, last_poll, last_save, payload, writes>>

Sleep == SleepStep /\ UNCHANGED now

\* A status observation after which the job does not change any more.
IsTerminal(view) ==
    view.data_ok /\ (view.status = Name("SUCCESS") \/ view.status \in ServiceFailures)

\* Lines 576-618: the status query of an iteration, answered by http, and
\* what follows from it; the loop's exhaustion raises the timeout error.  The
\* clock is left to the action that takes the step.
QueryStep(http) ==
    /\ pc = "query"
    /\   LET it == PollIteration(http, attempt + 1)
             view == PollView(http)
         IN  /\ net' = [net EXCEPT !.query = @ + 1,
                                   !.terminal = @ + (IF IsTerminal(view) THEN 1 ELSE 0)]
             /\ last_poll' = view
             /\ parameter_values' =
                   IF it.status # None THEN [status |-> it.status[1]]
                   ELSE parameter_values
             /\ CASE it.step = "return" ->
                       /\ completion_response' = it.val
                       /\ pc' = "extract"
                       /\ UNCHANGED <<attempt, parameter_output_values, raised, writes>>
                  [] it.step = "raise" ->
                       /\ Failed(it.exc)
                       /\ UNCHANGED <<attempt, completion_response>>
                  [] it.step = "continue" ->
                       /\ attempt' = attempt + 1
                       /\ IF attempt + 1 = MAX_POLLING_ATTEMPTS
                          THEN Failed(PollTimeout)
                          ELSE /\ pc' = "sleep"
                               /\ UNCHANGED <<parameter_output_values, raised, writes>>
                       /\ UNCHANGED completion_response
    /\ UNCHANGED <<nodes, static_files, params, validation, task_id, tracks,
                   last_save, payload>>

Query == \E http \in PollResponses : QueryStep(http) /\ UNCHANGED now

\* Lines 765-770: extraction and the zero-tracks check.
Extract ==
    /\ pc = "extract"
    /\ LET got == extract_track_data(completion_response)
       IN  IF ~got.ok
           THEN Failed(got.exc) /\ UNCHANGED tracks
           ELSE IF got.val = <<>>
           THEN /\ Failed(Exc("RuntimeError", <<Lit("No tracks in completed response")>>))
                /\ UNCHANGED tracks
           ELSE /\ tracks' = got.val
                /\ pc' = "audio1"
                /\ UNCHANGED <<parameter_output_values, raised, writes>>
    /\ completion_response' = JNull
    /\ UNCHANGED <<process_vars, params, validation, parameter_values, task_id,
                   attempt, net, last_poll, last_save, payload>>

\* The bookkeeping of one materialization.
Materialized(slot, url, o, ts) ==
    /\ net' = [net EXCEPT !.download = Append(@, url),
                          !.save = @ + (IF o.dl = "content" THEN 1 ELSE 0)]
    /\ last_save' = [slot |-> slot, url |-> url, dl |-> o.dl, sv |-> o.sv]

\* Lines 774-776: the audio of the first track.
Audio1 ==
    /\ pc = "audio1"
    /\ \E o \in SaveOutcomes, ts \in 0..MaxClock :
         LET url == tracks[1].audio_url
             art == save_audio_from_url(url, 1, o.dl, o.sv, ts)
         IN  /\ (o.dl # "content" => ts = 0)
             /\ Materialized("audio_track_1", url, o, ts)
             /\ IF art.ok
                THEN /\ parameter_output_values' =
                           [parameter_output_values EXCEPT !.audio_track_1 = art.val]
                     /\ writes' = Written(writes, {"audio_track_1"})
                     /\ pc' = "cover"
                     /\ UNCHANGED raised
                ELSE Failed(art.exc)
    /\ UNCHANGED <<process_vars, params, validation, parameter_values, task_id,
                   attempt, completion_response, tracks, last_poll, payload>>

\* Lines 779-790: the cover of the first track, if it has one, and its texts.
Track1Texts_last(out) ==
    [out EXCEPT !.generated_title = OrElse(tracks[Len(tracks)].title, Name("Untitled")),
                !.tags = OrElse(tracks[Len(tracks)].tags, EmptyStr),
                !.lyrics = OrElse(tracks[Len(tracks)].prompt, EmptyStr)]
Track1Texts(out) ==
    [out EXCEPT !.generated_title = OrElse(tracks[1].title, Name("Untitled")),
                !.tags = OrElse(tracks[1].tags, EmptyStr),
                !.lyrics = OrElse(tracks[1].prompt, EmptyStr)]

Cover ==
    /\ pc = "cover"
    /\ IF Truthy(tracks[1].image_url)
       THEN \E o \in SaveOutcomes, ts \in 0..MaxClock :
              LET url == tracks[1].image_url
                  art == save_image_from_url(url, o.dl, o.sv, ts)
              IN  /\ (o.dl # "content" => ts = 0)
                  /\ Materialized("cover_image", url, o, ts)
                  /\ IF art.ok
                     THEN /\ parameter_output_values' =
                                Track1Texts([parameter_output_values
                                               EXCEPT !.cover_image = art.val])
                          /\ writes' = Written(writes, {"cover_image", "generated_title",
                                                        "tags", "lyrics"})
                          /\ pc' = IF Len(tracks) >= 2 THEN "audio2" ELSE "complete"
                          /\ UNCHANGED raised
                     ELSE Failed(art.exc)
       ELSE /\ parameter_output_values' = Track1Texts(parameter_output_values)
            /\ writes' = Written(writes, {"generated_title", "tags", "lyrics"})
            /\ pc' = IF Len(tracks) >= 2 THEN "audio2" ELSE "complete"
            /\ last_save' = NoSave
            /\ UNCHANGED <<raised, net>>
    /\ UNCHANGED <<process_vars, params, validation, parameter_values, task_id,
                   attempt, completion_response, tracks, last_poll, payload>>

\* Lines 793-796: the audio of the second track.
Audio2 ==
    /\ pc = "audio2"
    /\ \E o \in SaveOutcomes, ts \in 0..MaxClock :
         LET url == tracks[2].audio_url
             art == save_audio_from_url(url, 2, o.dl, o.sv, ts)
         IN  /\ (o.dl # "content" => ts = 0)
             /\ Materialized("audio_track_2", url, o, ts)
             /\ IF art.ok
                THEN /\ parameter_output_values' =
                           [parameter_output_values EXCEPT !.audio_track_2 = art.val]
                     /\ writes' = Written(writes, {"audio_track_2"})
                     /\ pc' = "complete"
                     /\ UNCHANGED raised
                ELSE Failed(art.exc)
    /\ UNCHANGED <<process_vars, params, validation, parameter_values, task_id,
                   attempt, completion_response, tracks, last_poll, payload>>

\* Line 799.
Complete ==
    /\ pc = "complete"
    /\ parameter_output_values' = [parameter_output_values EXCEPT !.status = "complete"]
    /\ writes' = Written(writes, {"status"})
    /\ pc' = "summary"
    /\ last_save' = NoSave
    /\ UNCHANGED <<process_vars, params, validation, parameter_values, task_id,
                   attempt, completion_response, tracks, raised, net, last_poll,
                   payload>>

\* Lines 802-820: the summary.
Summary ==
    /\ pc = "summary"
    /\ LET lines == ResultLines(tracks, task_id)
       IN  IF lines.ok
           THEN /\ parameter_output_values' =
                      [parameter_output_values EXCEPT !.result_details = lines.val]
                /\ writes' = Written(writes, {"result_details"})
                /\ pc' = "done"
                /\ UNCHANGED raised
           ELSE Failed(lines.exc)
    /\ UNCHANGED <<process_vars, params, validation, parameter_values, task_id,
                   attempt, completion_response, tracks, net, last_poll, last_save,
                   payload>>

Next ==
    \/ Begin
    \/ Submit
    \/ Sleep
    \/ Query
    \/ Extract
    \/ Audio1
    \/ Cover
    \/ Audio2
    \/ Complete
    \/ Summary

Spec == Init /\ [][Next]_vars

(***************************************************************************)
(* SpecPoll: _poll_for_completion with the seconds it takes.  now counts   *)
(* the seconds since the loop was entered.                                 *)
(***************************************************************************)
\* The seconds a status query can take, up to its timeout (line 581).
QueryDurations == {0, 1, DEFAULT_TIMEOUT}
\* Answers of the status query: a timeout, a pending task, a success, a
\* failure.
TimedResponses ==
    {HttpTimeout}
    \cup {Json(Dict2("code", JNum(200), "data", d)) :
            d \in {Dict1("status", Name("PENDING")), Dict1("status", Name("SUCCESS")),
                   Dict1("status", Name("CREATE_TASK_FAILED"))}}

\* The state in which line 762 calls _poll_for_completion.
InitPoll ==
    /\ params = RunRequest
    /\ validation = [ran |-> TRUE, result |-> validate_before_node_run(RunRequest)]
    /\ pc = "sleep"
    /\ parameter_output_values = [set_safe_defaults EXCEPT !.task_id = Name("abc123")]
    /\ parameter_values = [status |-> <<Lit("Generating music...")>>]
    /\ task_id = Name("abc123")
    /\ attempt = 0
    /\ completion_response = JNull
    /\ tracks = <<>>
    /\ raised = None
    /\ net = [NoCalls EXCEPT !.secret = Some(Name("key")), !.submit = 1,
                             !.submitted = "accepted"]
    /\ last_poll = NoPoll
    /\ last_save = NoSave
    /\ payload = Some(build_payload(RunRequest))
    /\ writes = Written(NoWrites, {"task_id"})
    /\ now = 0
    /\ Alone

\* Line 574: the sleep takes POLLING_INTERVAL seconds.
TimedSleep == SleepStep /\ now' = now + POLLING_INTERVAL

\* Lines 577-582: the status query takes d seconds.
TimedQuery ==
    \E http \in TimedResponses, d \in QueryDurations :
       QueryStep(http) /\ now' = now + d

NextPoll == TimedSleep \/ TimedQuery

SpecPoll == InitPoll /\ [][NextPoll]_vars

(***************************************************************************)
(* SpecFiles: the nodes of one process, each running _process in a thread  *)
(* of its own (process, line 734), with the clock their file names are     *)
(* made of and the static storage they save to.  A node's run is taken     *)
(* from its first time.sleep on; the status query after it answers         *)
(* SUCCESS with two tracks and a cover.                                    *)
(***************************************************************************)
Nodes == {"a", "b"}
\* The runs the process makes in all, and the seconds the clock goes on for.
Runs(ns) == ns["a"].run + ns["b"].run
MaxNow == Cardinality(Nodes) * POLLING_INTERVAL + MaxClock

InitFiles ==
    /\ params = RunRequest
    /\ validation = [ran |-> TRUE, result |-> validate_before_node_run(RunRequest)]
    /\ InitCommon
    /\ nodes = [n \in Nodes |-> [pc |-> "idle", wake |-> 0, run |-> 0]]
    /\ static_files = {}

\* time.time() moves on.
Tick ==
    /\ now < MaxNow
    /\ now' = now + 1
    /\ UNCHANGED <<node_vars, nodes, static_files>>

\* Line 574 of a run of node n: time.sleep(POLLING_INTERVAL) begins.
NodeSleep(n) ==
    /\ nodes[n].pc = "idle"
    /\ Runs(nodes) < Cardinality(Nodes)
    /\ nodes' = [nodes EXCEPT ![n] = [pc |-> "sleeping",
                                      wake |-> now + POLLING_INTERVAL,
                                      run |-> @.run + 1]]
    /\ UNCHANGED <<node_vars, now, static_files>>

\* time.sleep returns, at its time or later, and the status query answers
\* SUCCESS.
NodeWake(n) ==
    /\ nodes[n].pc = "sleeping"
    /\ now >= nodes[n].wake
    /\ nodes' = [nodes EXCEPT ![n].pc = "audio1", ![n].wake = now]
    /\ UNCHANGED <<node_vars, now, static_files>>

\* Lines 696 and 722: save_static_file(bytes, filename) of an artifact that
\* was saved; a fallback artifact has no name and saved nothing.
Stored(n, slot, art) ==
    IF art.val.name = None THEN static_files
    ELSE static_files \cup {[file |-> art.val.name[1], node |-> n,
                             run |-> nodes[n].run, slot |-> slot]}

\* Lines 774-775, 779-780 and 793-795 of a run of node n; the downloads
\* and saves of a run take MaxClock seconds at most.
NodeSave(n) ==
    /\ nodes[n].pc \in {"audio1", "cover", "audio2"}
    /\ now <= nodes[n].wake + MaxClock
    /\ \E o \in SaveOutcomes :
         LET at == nodes[n].pc
             art == CASE at = "audio1" ->
                           save_audio_from_url(Url("audio", 1), 1, o.dl, o.sv, now)
                      [] at = "cover" ->
                           save_image_from_url(Url("image", 1), o.dl, o.sv, now)
                      [] at = "audio2" ->
                           save_audio_from_url(Url("audio", 2), 2, o.dl, o.sv, now)
         IN  /\ static_files' = Stored(n, at, art)
             /\ nodes' = [nodes EXCEPT ![n].pc =
                             CASE at = "audio1" -> "cover"
                               [] at = "cover" -> "audio2"
                               [] at = "audio2" -> "idle"]
    /\ UNCHANGED <<node_vars, now>>

NextFiles ==
    \/ Tick
    \/ \E n \in Nodes : NodeSleep(n)
    \/ \E n \in Nodes : NodeWake(n)
    \/ \E n \in Nodes : NodeSave(n)

SpecFiles == InitFiles /\ [][NextFiles]_vars

(***************************************************************************)
(* Claims.                                                                 *)
(***************************************************************************)
Out == parameter_output_values

\* str(e) of the exception the except clause caught: the message raised to
\* the host without the node's name and the ": " before it.
RaisedMsg == SubSeq(raised[1].msg, 3, Len(raised[1].msg))

\* The failure baseline of the outputs, with the summary "ERROR: " + message.
AtFailureBaseline ==
    /\ Out.status = "error"
    /\ Out.task_id = JNull
    /\ Out.audio_track_1 = JNull
    /\ Out.audio_track_2 = JNull
    /\ Out.cover_image = JNull
    /\ Out.generated_title = EmptyStr
    /\ Out.tags = EmptyStr
    /\ Out.lyrics = EmptyStr
    /\ Out.result_details = << <<Lit("ERROR: ")>> \o RaisedMsg >>

TimeoutMsg ==
    <<Lit("Task did not complete within "), JNum(360), Lit(" seconds. "),
      Lit("The task may still be processing - check back with the task_id later.")>>

\* The poll loop was entered: submission returned a task id.
PollStarted == task_id # JNull
\* The last status query delivered a status, or failed in transport, or none
\* was made yet.
TransportError == last_poll.kind \in {"error", "timeout"}
StatusLike == last_poll.kind = "none" \/ TransportError \/ last_poll.data_ok
ObservedSuccess == last_poll.data_ok /\ last_poll.status = Name("SUCCESS")
ObservedFailure == last_poll.data_ok /\ last_poll.status \in ServiceFailures
AfterPoll == {"extract", "audio1", "cover", "audio2", "complete", "summary", "done"}

\* C1: over the status queries whose outcome is a status (HTTP success, envelope
\* code 200, a data object) or a transport error, the loop makes exactly
\* min(k, 36) queries, k the position of the first terminal status: it goes on
\* while no terminal status was seen and fewer than 36 queries were made, it
\* returns the success payload at a first terminal status of success, it fails
\* with the timeout error after 36 queries without one; never a 37th query and
\* never a query after a terminal observation.
C1_PollQueries ==
    /\ net.query <= 36
    /\ net.terminal <= 1
    /\ net.terminal = 1 => IsTerminal(last_poll) /\ pc \notin {"sleep", "query"}
    /\ (PollStarted /\ StatusLike /\ net.terminal = 0 /\ net.query < 36)
          => pc \in {"sleep", "query"} /\ raised = None
    /\ (PollStarted /\ StatusLike /\ net.terminal = 0 /\ net.query = 36)
          => pc = "failed" /\ RaisedMsg = TimeoutMsg
    /\ ObservedSuccess
          => /\ pc \in AfterPoll \cup {"failed"}
             /\ pc = "failed" => RaisedMsg # TimeoutMsg
             /\ pc = "extract" =>
                  /\ Get(Get(completion_response, "data", EmptyDict), "status", JNull)
                        = Name("SUCCESS")
                  /\ net.query = attempt + 1
    /\ pc \in AfterPoll => ObservedSuccess /\ net.terminal = 1

C1_Witness ==
    /\ pc = "extract"
    /\ net.query = 3
    /\ net.sleep = 3
    /\ parameter_values.status =
          <<Lit("Status: "), Name("SUCCESS"), Lit(" ("), JNum(3), Lit("/"), JNum(36),
            Lit(")")>>

\* C2: a transport/HTTP error on a status query does not end the loop and is
\* not the invocation's error: while attempts remain the loop goes on to the
\* next sleep and query (after the 36th it is the timeout error that is
\* raised), and a success response to the query after it is returned.
C2_TransportErrorSwallowed ==
    /\ [](TransportError
            => IF net.query < 36
               THEN pc \in {"sleep", "query"} /\ raised = None
               ELSE pc = "failed" /\ RaisedMsg = TimeoutMsg)
    /\ [][(pc = "query" /\ TransportError
            /\ last_poll'.data_ok /\ last_poll'.status = Name("SUCCESS"))
          => (pc' = "extract" /\ raised' = None
              /\ completion_response' # JNull)]_vars

C2_Witness ==
    /\ pc = "query"
    /\ last_poll.kind = "error"
    /\ net.query = 1
    /\ net.sleep = 2

\* C3: a status query that observes one of the four failure sub-states ends
\* the loop at once with "Generation failed: " and the service's error
\* message, or the fallback naming the status when the response has no error
\* message (no errorMessage, or a null one).
C3_FailureMessage ==
    ObservedFailure
      => /\ pc = "failed"
         /\ net.terminal = 1
         /\ RaisedMsg =
              <<Lit("Generation failed: ")>>
              \o (IF last_poll.error_message = "text"
                  THEN <<Name("msg")>>
                  ELSE <<Lit("Task failed with status: "), last_poll.status>>)

\* C4: when the invocation has failed, at whatever stage, every output is at
\* the failure baseline and the summary is "ERROR: " and the error message,
\* also the outputs populated earlier in the invocation.
C4_FailureBaseline == pc = "failed" => raised # None /\ AtFailureBaseline

\* A failure after the task id and the assets had been written to the outputs.
C4_Witness ==
    /\ pc = "failed"
    /\ task_id # JNull
    /\ Len(net.download) = 3

\* C5: an invocation whose poll returned a success payload with N >= 1 entries
\* that have an audio URL ends without raising, with status "complete", the
\* task id, audio_track_1, audio_track_2 exactly when N >= 2 and the summary
\* line "Generated N track variation(s)", whichever other fields the entries
\* have.  (The check mark before "Generated" is left out of the text.)
C5_SuccessOutputs ==
    (pc \in {"done", "failed"} /\ Len(tracks) >= 1)
      => /\ pc = "done"
         /\ raised = None
         /\ Out.status = "complete"
         /\ Out.task_id = task_id
         /\ Out.audio_track_1 # JNull
         /\ (Out.audio_track_2 # JNull <=> Len(tracks) >= 2)
         /\ Out.result_details[1] =
              <<Lit("Generated "), JNum(Len(tracks)), Lit(" track variation(s)")>>

\* C6: a materialization whose download failed or delivered no bytes, or whose
\* save raised, does not raise and leaves in its output a reference whose value
\* is the remote URL it was given; and an invocation that fails after a
\* download has failed for a reason no download outcome decides (the first
\* track has no lyrics text).
C6_Fallback ==
    /\ (last_save.slot # "none"
          /\ (last_save.dl \in {"fail", "empty"} \/ last_save.sv = "raise"))
         => /\ pc # "failed"
            /\ raised = None
            /\ Out[last_save.slot] # JNull
            /\ Out[last_save.slot].value = last_save.url
            /\ last_save.url \in
                 {tracks[i].audio_url : i \in 1..Len(tracks)} \cup {tracks[1].image_url}
    /\ (pc = "failed" /\ net.download # <<>>) => tracks[1].prompt.t # "str"

\* A successful invocation all of whose three assets fell back to their URL,
\* one of them because the save raised.
C6_Witness ==
    /\ pc = "done"
    /\ Len(tracks) >= 2
    /\ net.save = 1
    /\ Out.audio_track_1 = Artifact("AudioUrlArtifact", tracks[1].audio_url, None)
    /\ Out.cover_image = Artifact("ImageUrlArtifact", tracks[1].image_url, None)
    /\ Out.audio_track_2 = Artifact("AudioUrlArtifact", tracks[2].audio_url, None)

\* C7: when the submit call timed out, failed in transport, was answered with
\* an envelope code other than 200 or with no job identifier, the invocation
\* has failed with the error raised and the failure baseline, and it made no
\* sleep, no status query and no download.
C7_SubmissionFailure ==
    net.submitted \in {"timeout", "error", "rejected", "no_task_id"}
      => /\ pc = "failed"
         /\ raised # None
         /\ raised[1].type = "RuntimeError"
         /\ AtFailureBaseline
         /\ net.submit = 1
         /\ net.sleep = 0
         /\ net.query = 0
         /\ net.download = <<>>
         /\ net.save = 0

C7_Witness ==
    /\ net.submitted = "no_task_id"
    /\ pc = "failed"
    /\ RaisedMsg = <<Lit("No task ID returned from API")>>

\* C8: when the secret store returned no credential (none, or an empty one),
\* the invocation has failed with the configuration error raised and the
\* failure baseline, and it made no network call.
C8_MissingCredential ==
    (net.secret # None /\ net.secret[1] \in {JNull, EmptyStr})
      => /\ pc = "failed"
         /\ raised # None
         /\ RaisedMsg =
              <<Lit("Missing SUNO_API_KEY. Please configure your Suno API key in Settings > Secrets.")>>
         /\ AtFailureBaseline
         /\ net.submit = 0
         /\ net.sleep = 0
         /\ net.query = 0
         /\ net.download = <<>>
         /\ net.save = 0

C8_Witness ==
    /\ net.secret = Some(EmptyStr)
    /\ pc = "failed"

(***************************************************************************)
(* Claims about validation, under SpecValidate.                            *)
(***************************************************************************)
Errors == IF validation.result = None THEN <<>> ELSE validation.result[1]
Blank(s) == s.core = 0
ErrorsWith(texts) == {i \in 1..Len(Errors) : Errors[i].text \in texts}

StyleRequiredText == "Style is required in Custom Mode"
StyleLengthText == "Style exceeds {limit} character limit for {model}"
TitleRequiredText == "Title is required in Custom Mode"
TitleLengthText == "Title exceeds {limit} character limit"
LowModels == {"V3_5", "V4"}

\* C9 as stated: in custom mode a missing style or title gets exactly one
\* error about that field, and validation makes no network call.
C9_OneErrorPerMissingField ==
    (validation.ran /\ params.custom_mode)
      => /\ Blank(params.style)
              => Cardinality(ErrorsWith({StyleRequiredText, StyleLengthText})) = 1
         /\ Blank(params.title)
              => Cardinality(ErrorsWith({TitleRequiredText, TitleLengthText})) = 1
         /\ net = NoCalls

\* C9 as amended: in custom mode a missing style or title gets exactly one
\* "is required" error for that field; the one further error about the field
\* is its length error, returned exactly when the whitespace-only value is
\* longer than the field's limit; validation makes no network call.
C9_OneRequiredErrorPerMissingField ==
    (validation.ran /\ params.custom_mode)
      => /\ Blank(params.style)
              => /\ Cardinality(ErrorsWith({StyleRequiredText})) = 1
                 /\ Cardinality(ErrorsWith({StyleLengthText})) =
                      (IF StrLen(params.style) >
                            (IF params.model \in LowModels THEN 200 ELSE 1000)
                       THEN 1 ELSE 0)
         /\ Blank(params.title)
              => /\ Cardinality(ErrorsWith({TitleRequiredText})) = 1
                 /\ Cardinality(ErrorsWith({TitleLengthText})) =
                      (IF StrLen(params.title) > 80 THEN 1 ELSE 0)
         /\ net = NoCalls

C9_Witness ==
    /\ validation.ran
    /\ params.custom_mode
    /\ params.style = Str(1, 0)
    /\ params.title = Str(0, 0)
    /\ Cardinality(ErrorsWith({StyleRequiredText, TitleRequiredText})) = 2

\* The rules of validation as the specification lists them.
RuleViolated(rule, p) ==
    CASE rule = "style_required" -> p.custom_mode /\ Blank(p.style)
      [] rule = "title_required" -> p.custom_mode /\ Blank(p.title)
      [] rule = "prompt_required" ->
           p.custom_mode /\ ~p.instrumental /\ Blank(p.prompt)
      [] rule = "prompt_length" ->
           p.custom_mode
           /\ StrLen(p.prompt) > (IF p.model \in LowModels THEN 3000 ELSE 5000)
      [] rule = "style_length" ->
           p.custom_mode
           /\ StrLen(p.style) > (IF p.model \in LowModels THEN 200 ELSE 1000)
      [] rule = "title_length" -> p.custom_mode /\ StrLen(p.title) > 80
      [] rule = "simple_prompt_required" -> ~p.custom_mode /\ Blank(p.prompt)
      [] rule = "simple_prompt_length" -> ~p.custom_mode /\ StrLen(p.prompt) > 500

\* The error a violated rule is reported with: its text and the limit it names.
RuleError(rule, p) ==
    CASE rule = "style_required" -> <<StyleRequiredText, 0>>
      [] rule = "title_required" -> <<TitleRequiredText, 0>>
      [] rule = "prompt_required" ->
           <<"Prompt/Lyrics required in Custom Mode when not instrumental", 0>>
      [] rule = "prompt_length" ->
           <<"Prompt exceeds {limit} character limit for {model}",
             IF p.model \in LowModels THEN 3000 ELSE 5000>>
      [] rule = "style_length" ->
           <<StyleLengthText, IF p.model \in LowModels THEN 200 ELSE 1000>>
      [] rule = "title_length" -> <<TitleLengthText, 80>>
      [] rule = "simple_prompt_required" -> <<"Prompt is required in Simple Mode", 0>>
      [] rule = "simple_prompt_length" ->
           <<"Prompt exceeds {limit} character limit in Simple Mode", 500>>

Rules ==
    {"style_required", "title_required", "prompt_required", "prompt_length",
     "style_length", "title_length", "simple_prompt_required", "simple_prompt_length"}

\* C10: validation returns one error for each violated rule and no other
\* error, all of them together, each length error naming its limit; it
\* returns no error exactly when no rule is violated.
C10_OneErrorPerViolatedRule ==
    validation.ran
      => LET violated == {r \in Rules : RuleViolated(r, params)}
         IN  /\ Len(Errors) = Cardinality(violated)
             /\ {<<Errors[i].text, Errors[i].limit>> : i \in 1..Len(Errors)}
                  = {RuleError(r, params) : r \in violated}
             /\ (validation.result = None <=> violated = {})

\* All six custom-mode rules violated at once.
C10_Witness ==
    /\ validation.ran
    /\ params.custom_mode
    /\ Len(Errors) = 6

(***************************************************************************)
(* Claims about _build_payload, under SpecPayload.                         *)
(***************************************************************************)
Built == payload # None
Body == payload[1]
\* The three weight keys and the parameter each one comes from.
WeightKeys ==
    {<<"styleWeight", params.style_weight>>,
     <<"weirdnessConstraint", params.weirdness_constraint>>,
     <<"audioWeight", params.audio_weight>>}
\* v is w rounded to two decimal places: a whole number of hundredths, and
\* none is nearer to w.
IsRounded(v, w) ==
    /\ v.t = "num" /\ v.v % 10 = 0
    /\ 2 * v.v - 2 * w.v \in -10..10

\* C11: for each of the three weights and every value w of 0.0 .. 1.0, the
\* body has no key for the weight when w is the default 0.65, and for every
\* other w, 0.0 included, it has the key with w rounded to 2 decimals.
C11_WeightKeys ==
    Built =>
      \A kw \in WeightKeys :
         IF kw[2] = JNum(DEFAULT_WEIGHT)
         THEN kw[1] \notin DOMAIN Body
         ELSE kw[1] \in DOMAIN Body /\ IsRounded(Body[kw[1]], kw[2])

\* Whether the text is non-empty after trimming, and the trimmed text.
HasContent(text) == text.core > 0
Trimmed(text) == Str(0, text.core)
TextKey(k, present, text) ==
    IF present THEN k \in DOMAIN Body /\ Body[k] = Trimmed(text)
    ELSE k \notin DOMAIN Body

\* C12: every body holds customMode, instrumental, model and the callback
\* placeholder; prompt and negativeTags are present exactly when the input
\* is non-empty after trimming, and hold the trimmed text; style and title
\* are present exactly in custom mode with an input non-empty after
\* trimming; vocalGender is present exactly when a preference other than
\* "auto" is set.
C12_PayloadKeys ==
    Built =>
      /\ {"customMode", "instrumental", "model", "callBackUrl"} \subseteq DOMAIN Body
      /\ Body["customMode"] = params.custom_mode
      /\ Body["instrumental"] = params.instrumental
      /\ Body["model"] = params.model
      /\ Body["callBackUrl"] = "https://example.com/callback"
      /\ TextKey("prompt", HasContent(params.prompt), params.prompt)
      /\ TextKey("negativeTags", HasContent(params.negative_tags), params.negative_tags)
      /\ TextKey("style", params.custom_mode /\ HasContent(params.style), params.style)
      /\ TextKey("title", params.custom_mode /\ HasContent(params.title), params.title)
      /\ IF params.vocal_gender \in {JStr("m", 1), JStr("f", 1)}
         THEN "vocalGender" \in DOMAIN Body
              /\ Body["vocalGender"] = params.vocal_gender
         ELSE "vocalGender" \notin DOMAIN Body

\* A simple-mode body built from a style and a title with content and a
\* prompt inside whitespace: no style, no title, the prompt trimmed.
C12_Witness ==
    /\ Built
    /\ ~params.custom_mode
    /\ HasContent(params.style) /\ HasContent(params.title)
    /\ params.prompt = Str(2, 1)
    /\ Body["prompt"] = Str(0, 1)
    /\ params.vocal_gender = JStr("f", 1)
    /\ DOMAIN Body = {"customMode", "instrumental", "model", "callBackUrl",
                      "prompt", "vocalGender"}

(***************************************************************************)
(* Claims about _extract_track_data, under SpecExtract.                    *)
(***************************************************************************)
Called == pc \in {"extracted", "raised"}
\* data, data.response and data.response.sunoData of the payload, when
\* each level is there and of its type.
WellNested ==
    LET r == completion_response
    IN  /\ "data" \in DOMAIN r.v /\ IsDict(r.v["data"])
        /\ "response" \in DOMAIN r.v["data"].v /\ IsDict(r.v["data"].v["response"])
        /\ "sunoData" \in DOMAIN r.v["data"].v["response"].v
        /\ IsList(r.v["data"].v["response"].v["sunoData"])
SunoData == completion_response.v["data"].v["response"].v["sunoData"].v
\* The positions of the entries that have an audio URL.
WithAudio ==
    {i \in 1..Len(SunoData) :
        /\ "audioUrl" \in DOMAIN SunoData[i].v
        /\ SunoData[i].v["audioUrl"] \notin {JNull, EmptyStr}}

\* C13: from a payload whose data.response.sunoData is a list of track
\* entries, the extractor returns exactly the entries that have a non-empty
\* audio URL, one record for each, in the order of the input.
C13_ExactlyAudioEntries ==
    (Called /\ WellNested /\ \A i \in 1..Len(SunoData) : IsDict(SunoData[i]))
      => /\ pc = "extracted"
         /\ Len(tracks) = Cardinality(WithAudio)
         /\ \E f \in [1..Len(tracks) -> WithAudio] :
               /\ \A j, k \in 1..Len(tracks) : j < k => f[j] < f[k]
               /\ \A k \in 1..Len(tracks) :
                     tracks[k].audio_url = SunoData[f[k]].v["audioUrl"]

\* One entry with an audio URL and then one without: one record.
C13_Witness ==
    /\ pc = "extracted" /\ WellNested
    /\ Len(SunoData) = 2
    /\ IsDict(SunoData[1]) /\ IsDict(SunoData[2])
    /\ WithAudio = {1}
    /\ Len(tracks) = 1
    /\ tracks[1].audio_url = Url("audio", 1)

\* C14: whichever level of the payload (data, data.response, sunoData, an
\* entry) is absent, null or of another shape, the extractor returns a list
\* of tracks, which is empty when no level below holds a valid entry, and
\* raises nothing.
C14_NeverRaises ==
    Called => /\ pc = "extracted"
              /\ ~WellNested => tracks = <<>>

(***************************************************************************)
(* Claims about the output slots over an invocation, under Spec.           *)
(***************************************************************************)
Running == pc \notin {"idle", "failed"}

\* C15: within one invocation each of the nine output slots is set exactly
\* once after the initial defaults: overwritten once on success or left at
\* its failure default on error; no slot is written a second time and none
\* that was overwritten is written back.
C15_SlotsSetOnce ==
    /\ \A s \in Slots : writes[s] <= 1
    /\ pc = "done" => \A s \in Slots \ {"cover_image", "audio_track_2"} : writes[s] = 1

\* C15, as the code has it: until the invocation fails each slot is assigned
\* at most once after the defaults, and a slot not assigned yet holds its
\* default; a successful invocation has assigned status, task_id,
\* audio_track_1, generated_title, tags, lyrics and result_details once,
\* cover_image once if track 1 has an image and audio_track_2 once if there
\* is a second track; a failure assigns every slot once more, which writes
\* the overwritten ones back to their defaults, and result_details a second
\* time, with the error message.
C15_SlotWrites ==
    /\ Running =>
          /\ \A s \in Slots : writes[s] <= 1
          /\ \A s \in Slots : writes[s] = 0 => Out[s] = set_safe_defaults[s]
    /\ pc = "done" =>
          /\ \A s \in Slots \ {"cover_image", "audio_track_2"} : writes[s] = 1
          /\ writes["cover_image"] = (IF Truthy(tracks[1].image_url) THEN 1 ELSE 0)
          /\ writes["audio_track_2"] = (IF Len(tracks) >= 2 THEN 1 ELSE 0)
    /\ pc = "failed" =>
          /\ writes["result_details"] = 2
          /\ \A s \in Slots \ {"result_details"} :
                /\ writes[s] \in {1, 2}
                /\ Out[s] = set_safe_defaults[s]

\* A failure after task_id and audio_track_1 were assigned: both are
\* assigned a second time, back to None.
C15_Witness ==
    /\ pc = "failed"
    /\ writes["task_id"] = 2 /\ writes["audio_track_1"] = 2
    /\ writes["audio_track_2"] = 1
    /\ Out["task_id"] = JNull /\ Out["audio_track_1"] = JNull

(***************************************************************************)
(* Claims about the file names, under SpecFiles.                           *)
(***************************************************************************)
\* C16: no two assets the pipeline persists are saved under the same
\* generated file name: not two assets of one invocation, and not assets of
\* different runs of the process, be they one after another or of
\* different nodes running at the same time.
C16_DistinctFilenames ==
    \A f, g \in static_files : f # g => f.file # g.file

(***************************************************************************)
(* Claims about invocations one after another, under Spec.  task_id,       *)
(* tracks, raised and the log net belong to the invocation under way:      *)
(* Begin starts them afresh, as _process starts its locals.                *)
(***************************************************************************)
\* The references a materialization of `url` in this invocation can leave.
RefsOf(class, url, names) ==
    {Artifact(class, url, None)}
    \cup {Artifact(class, SavedUrl(f), Some(f)) : f \in names}
Downloaded(url) == \E i \in 1..Len(net.download) : net.download[i] = url

\* C17: after any sequence of invocations of a node the output slots hold
\* only what the last invocation produced: a task id is the one its own
\* submission returned, an asset reference comes from a download it made of
\* a track of its own payload, title, tags and lyrics are those of its own
\* first track, and the summary is its own; an invocation begins from the
\* defaults whatever the one before left.
C17_OnlyLastInvocation ==
    /\ [](pc # "idle" =>
          /\ Out.task_id # JNull =>
                net.submitted = "accepted" /\ Out.task_id = task_id
          /\ Out.audio_track_1 # JNull =>
                /\ Len(tracks) >= 1 /\ Downloaded(tracks[1].audio_url)
                /\ Out.audio_track_1 \in
                      RefsOf("AudioUrlArtifact", tracks[1].audio_url,
                             {AudioFilename(1, ts) : ts \in 0..MaxClock})
          /\ Out.audio_track_2 # JNull =>
                /\ Len(tracks) >= 2 /\ Downloaded(tracks[2].audio_url)
                /\ Out.audio_track_2 \in
                      RefsOf("AudioUrlArtifact", tracks[2].audio_url,
                             {AudioFilename(2, ts) : ts \in 0..MaxClock})
          /\ Out.cover_image # JNull =>
                /\ Len(tracks) >= 1 /\ Downloaded(tracks[1].image_url)
                /\ Out.cover_image \in
                      RefsOf("ImageUrlArtifact", tracks[1].image_url,
                             {CoverFilename(ts) : ts \in 0..MaxClock})
          /\ Out.generated_title # EmptyStr =>
                Len(tracks) >= 1 /\ Out.generated_title \in {tracks[1].title, Name("Untitled")}
          /\ Out.tags # EmptyStr => Len(tracks) >= 1 /\ Out.tags = tracks[1].tags
          /\ Out.lyrics # EmptyStr => Len(tracks) >= 1 /\ Out.lyrics = tracks[1].prompt
          /\ Out.result_details =
                (CASE pc = "failed" -> << <<Lit("ERROR: ")>> \o RaisedMsg >>
                   [] pc = "done" -> ResultLines(tracks, task_id).val
                   [] OTHER -> set_safe_defaults.result_details)
          /\ Out.status = (IF pc \in {"summary", "done"} THEN "complete" ELSE "error"))
    /\ [][(pc \in {"done", "failed"} /\ pc' = "submit")
            => /\ parameter_output_values' = set_safe_defaults
               /\ task_id' = JNull /\ tracks' = <<>> /\ raised' = None
               /\ net'.submit = 0 /\ net'.query = 0 /\ net'.download = <<>>]_vars

\* An invocation that found no credential, after one that had polled (its
\* last progress text is still the status parameter's value): every output
\* is at the baseline of this failure.
C17_Witness ==
    /\ pc = "failed"
    /\ net.submit = 0
    /\ "status" \in DOMAIN parameter_values
    /\ parameter_values.status \notin {<<Lit("Submitting task...")>>,
                                        <<Lit("Generating music...")>>}
    /\ AtFailureBaseline

\* The summary of a success: its first line tells the number of tracks.
IsSuccessSummary(details) ==
    /\ Len(details) >= 1
    /\ details[1] = <<Lit("Generated "), JNum(Len(tracks)), Lit(" track variation(s)")>>

\* C18: in every state during or after an invocation, a status output of
\* "complete" comes with a fully populated success state - the success
\* summary, the task id, audio_track_1 - and a status that is "complete"
\* does not become "error" within that invocation.
C18_CompleteIsPopulated ==
    /\ []((pc # "idle" /\ Out.status = "complete")
            => /\ IsSuccessSummary(Out.result_details)
               /\ Out.task_id # JNull /\ Out.task_id = task_id
               /\ Out.audio_track_1 # JNull)
    /\ [][(pc = "summary" /\ Out.status = "complete") => Out'.status # "error"]_vars

(***************************************************************************)
(* Claims about the order of the network calls, under Spec.                *)
(***************************************************************************)
\* The downloads an invocation makes of its tracks, in their order.
DownloadPlan ==
    IF tracks = <<>> THEN <<>>
    ELSE <<tracks[1].audio_url>>
         \o (IF tracks[1].image_url \notin {JNull, EmptyStr}
             THEN <<tracks[1].image_url>> ELSE <<>>)
         \o (IF Len(tracks) >= 2 THEN <<tracks[2].audio_url>> ELSE <<>>)
IsPrefix(a, b) == Len(a) <= Len(b) /\ a = SubSeq(b, 1, Len(a))
Calls(n) == n.submit + n.sleep + n.query + Len(n.download)

\* C19: within one invocation the network actions come one at a time and in
\* this order: one submit; then status queries, each after one sleep; then,
\* after a success was observed, the download of track 1's audio, of track
\* 1's cover if it has one, of track 2's audio if there is a second track.
\* No query before the submission succeeded or after the first download,
\* no download before success was observed.
C19_NetworkOrder ==
    /\ [](/\ net.submit <= 1
          /\ pc \in {"sleep", "query"} \cup AfterPoll => net.submit = 1
          /\ (net.sleep > 0 \/ net.query > 0) => net.submitted = "accepted"
          /\ net.sleep = net.query + (IF pc = "query" THEN 1 ELSE 0)
          /\ IsPrefix(net.download, DownloadPlan)
          /\ net.download # <<>> => ObservedSuccess /\ pc \notin {"sleep", "query"}
          /\ pc \in {"complete", "summary", "done"} => net.download = DownloadPlan)
    /\ [][pc \notin {"idle", "done", "failed"}
            => /\ Calls(net') - Calls(net) \in {0, 1}
               /\ net.download # <<>> => net'.query = net.query /\ net'.sleep = net.sleep
               /\ net.query > 0 => net'.submit = net.submit]_vars

\* An invocation that is done after one submit, two sleeps and two queries
\* and the three downloads.
C19_Witness ==
    /\ pc = "done"
    /\ net.submit = 1 /\ net.sleep = 2 /\ net.query = 2
    /\ Len(tracks) >= 2
    /\ net.download = <<tracks[1].audio_url, tracks[1].image_url, tracks[2].audio_url>>

(***************************************************************************)
(* Claims about the time the poll loop takes, under SpecPoll.              *)
(***************************************************************************)
LoopEnded == pc \in {"extract", "failed"}

\* C20: with every sleep taking 10 seconds and every status query any time
\* from 0 up to its timeout of 30 seconds, the poll loop has ended - with
\* the success payload, a generation error or the timeout error - no later
\* than 36 x 10 = 360 seconds after it began: it neither ends later than
\* that nor is still running later than that.
C20_EndsWithin360 ==
    /\ LoopEnded => now <= MAX_POLLING_ATTEMPTS * POLLING_INTERVAL
    /\ ~LoopEnded => now <= MAX_POLLING_ATTEMPTS * POLLING_INTERVAL

(***************************************************************************)
(* Claims about the assembled outputs and the errors raised, under Spec.   *)
(***************************************************************************)
Range(q) == {q[i] : i \in 1..Len(q)}
Absent(x) == x = JNull \/ x = EmptyStr

\* The references the cover output can hold for the image URL url.
CoverRefs(url) ==
    {Artifact("ImageUrlArtifact", url, None)}
    \cup {Artifact("ImageUrlArtifact", SavedUrl(CoverFilename(ts)), Some(CoverFilename(ts))) :
            ts \in 0..MaxClock}

\* C21: on every successful invocation the text and image outputs come from
\* the first track only: cover_image is set exactly when the first track has
\* an image URL, and then from that URL (no image of another track is ever
\* downloaded); generated_title is the first track's title, or "Untitled"
\* when it has none; tags and lyrics are the first track's tags and prompt
\* text, or empty when absent; the summary's lyrics line is the lyrics
\* unchanged when they have at most 50 characters, and their first 50
\* characters followed by "..." otherwise.
C21_FirstTrackOnly ==
    pc = "done" =>
      LET first == tracks[1]
      IN  /\ Out.cover_image # JNull <=> ~Absent(first.image_url)
          /\ ~Absent(first.image_url)
                => /\ Out.cover_image \in CoverRefs(first.image_url)
                   /\ first.image_url \in Range(net.download)
          /\ \A i \in 2..Len(tracks) :
                ~Absent(tracks[i].image_url) => tracks[i].image_url \notin Range(net.download)
          /\ Out.generated_title =
                (IF Absent(first.title) THEN Name("Untitled") ELSE first.title)
          /\ Out.tags = (IF Absent(first.tags) THEN EmptyStr ELSE first.tags)
          /\ Out.lyrics = (IF Absent(first.prompt) THEN EmptyStr ELSE first.prompt)
          /\ Out.result_details[4] =
                (IF Out.lyrics.n <= 50
                 THEN <<Lit("Lyrics: "), Out.lyrics>>
                 ELSE <<Lit("Lyrics: "), JStr(Out.lyrics.v, 50), Lit("...")>>)

\* A success whose first track has neither image nor title nor tags and
\* whose second track has all of them.
C21_Witness ==
    /\ pc = "done"
    /\ Len(tracks) >= 2
    /\ Absent(tracks[1].image_url) /\ Absent(tracks[1].title)
    /\ ~Absent(tracks[2].image_url) /\ ~Absent(tracks[2].title)
    /\ Out.cover_image = JNull
    /\ Out.generated_title = Name("Untitled")
    /\ Out.lyrics = tracks[1].prompt

\* The invocation has ended: _process returned or raised.
Ended == pc \in {"done", "failed"}

\* C22: every error an invocation raises to the host, whatever its kind
\* (configuration, submission, generation, timeout, zero tracks), is the
\* node's name, ": " and the message that the summary output holds after
\* "ERROR: "; and an invocation has raised an error exactly when it ended
\* with status = "error".
C22_RaisedErrorIsPrefixed ==
    /\ raised # None
          => /\ Len(raised[1].msg) >= 3
             /\ SubSeq(raised[1].msg, 1, 2) = <<Lit(NodeName), Lit(": ")>>
             /\ Len(Out.result_details) = 1
             /\ Out.result_details[1][1] = Lit("ERROR: ")
             /\ SubSeq(Out.result_details[1], 2, Len(Out.result_details[1]))
                   = SubSeq(raised[1].msg, 3, Len(raised[1].msg))
    /\ Ended => (raised # None <=> Out.status = "error")
    /\ raised # None => pc = "failed"

\* The zero-tracks error raised to the host.
C22_Witness ==
    /\ pc = "failed"
    /\ raised = Some(Exc("RuntimeError",
                         <<Lit(NodeName), Lit(": "), Lit("No tracks in completed response")>>))
    /\ Out.result_details = << <<Lit("ERROR: "), Lit("No tracks in completed response")>> >>

\* No status query of the invocation has delivered a status: the progress
\* text of line 759 was not replaced by that of line 599.
NoStatusObserved == parameter_values = [status |-> <<Lit("Generating music...")>>]

\* C23: a status query that fails with a swallowed transport/HTTP error
\* consumes one of the 36 attempts like any other: the failed query is
\* counted among the queries made, of which there are never more than 36, so
\* that after j failed queries at most 36 - j further ones are made; and 36
\* failed queries in a row end the loop with the timeout error although no
\* status was ever observed.
C23_FailedQueryConsumesAttempt ==
    /\ [](/\ net.query <= MAX_POLLING_ATTEMPTS
          /\ pc \in {"sleep", "query"}
                => net.query = attempt /\ attempt < MAX_POLLING_ATTEMPTS
          /\ (PollStarted /\ NoStatusObserved /\ TransportError
                /\ net.query = MAX_POLLING_ATTEMPTS)
                => pc = "failed" /\ RaisedMsg = TimeoutMsg)
    /\ [][(pc = "query" /\ last_poll'.kind \in {"error", "timeout"})
            => /\ net'.query = net.query + 1
               /\ attempt' = attempt + 1
               /\ parameter_values' = parameter_values
               /\ IF attempt' < MAX_POLLING_ATTEMPTS
                  THEN pc' = "sleep" /\ raised' = None
                  ELSE pc' = "failed"]_vars

\* 36 failed queries and nothing else: the timeout error.
C23_Witness ==
    /\ pc = "failed"
    /\ net.query = 36
    /\ net.sleep = 36
    /\ TransportError
    /\ NoStatusObserved
    /\ RaisedMsg = TimeoutMsg

\* The last status query was answered over HTTP with an envelope code other
\* than 200.
EnvelopeRejected == last_poll.kind = "json" /\ ~last_poll.envelope_ok

\* C24: a status response that arrives over HTTP but whose envelope code is
\* not 200 is no transient fault: the loop ends at that query with the error
\* "API returned error: " and the envelope's msg ("Unknown error" when it
\* has none), no further query is made, and the invocation has failed,
\* whatever number of attempts remained.
C24_EnvelopeErrorIsFatal ==
    /\ [](EnvelopeRejected
            => /\ pc = "failed"
               /\ Len(RaisedMsg) = 2
               /\ RaisedMsg[1] = Lit("API returned error: ")
               /\ RaisedMsg[2] \in {Name("msg"), Name("Unknown error")}
               /\ net.query = attempt + 1
               /\ AtFailureBaseline)
    /\ [][(pc = "query" /\ last_poll'.kind = "json" /\ ~last_poll'.envelope_ok)
            => /\ pc' = "failed"
               /\ attempt' = attempt
               /\ net'.query = net.query + 1]_vars
    /\ [][EnvelopeRejected => (net'.query = 0 /\ net'.sleep = 0 /\ pc' # "query")]_vars

\* The envelope error at the first of the 36 queries.
C24_Witness ==
    /\ EnvelopeRejected
    /\ pc = "failed"
    /\ net.query = 1
    /\ attempt = 0
    /\ RaisedMsg = <<Lit("API returned error: "), Name("msg")>>

\* C25: an invocation sends at most one submit request: the one request is
\* sent before any sleep or status query, and none is sent after it, neither
\* after a submission failure nor after a polling failure or the timeout.
C25_AtMostOneSubmit ==
    /\ [](/\ net.submit \in {0, 1}
          /\ net.submit = 0 <=> net.submitted = "none"
          /\ net.submit = 0 => pc \in {"idle", "submit", "failed"} /\ task_id = JNull
          /\ (net.sleep > 0 \/ net.query > 0 \/ net.download # <<>>) => net.submit = 1)
    /\ [][net'.submit > net.submit
            => pc = "submit" /\ net.submit = 0 /\ net'.sleep = 0 /\ net'.query = 0]_vars
    /\ [][(net.submit = 1 /\ ~Ended) => net'.submit = 1]_vars
    /\ [][(net.submit = 1 /\ Ended) => net'.submit = 0 /\ net'.submitted = "none"]_vars

\* The timeout of the poll loop after the one submission.
C25_Witness ==
    /\ pc = "failed"
    /\ net.submit = 1
    /\ net.submitted = "accepted"
    /\ net.query = 36
    /\ RaisedMsg = TimeoutMsg

\* The last status query observed a status that is neither success nor one
\* of the four failure sub-states.
ObservedOther ==
    last_poll.data_ok /\ last_poll.status # Name("SUCCESS")
    /\ last_poll.status \notin ServiceFailures
\* The statuses of that kind the service is made to answer: the three
\* progress sub-states, an unrecognised one, a null one and a missing or
\* empty one.
OtherStatuses ==
    {Name("PENDING"), Name("TEXT_SUCCESS"), Name("FIRST_SUCCESS"), Name("UNKNOWN"),
     JNull, EmptyStr}

\* C26: an observed status that is neither success nor one of the four
\* failure sub-states - pending, text-ready, first-track-ready, or a missing,
\* empty, null or unrecognised value - is not terminal: the loop reports it
\* as progress ("Status: <status> (n/36)") and goes on to the next sleep and
\* query, and the invocation fails on it only when it was the 36th query,
\* with the timeout error.
C26_OtherStatusIsProgress ==
    /\ [](ObservedOther
            => /\ last_poll.status \in OtherStatuses
               /\ parameter_values.status = StatusMsg(last_poll.status, net.query)
               /\ net.terminal = 0
               /\ IF net.query < MAX_POLLING_ATTEMPTS
                  THEN pc \in {"sleep", "query"} /\ raised = None
                  ELSE pc = "failed" /\ RaisedMsg = TimeoutMsg)
    /\ [][(pc = "query" /\ last_poll'.data_ok /\ last_poll'.status \in OtherStatuses)
            => /\ attempt' = attempt + 1
               /\ net'.query = net.query + 1
               /\ attempt' < MAX_POLLING_ATTEMPTS => pc' = "sleep" /\ raised' = None]_vars

\* A response without a status, reported as progress with attempts left.
C26_Witness ==
    /\ pc = "sleep"
    /\ ObservedOther
    /\ last_poll.status = EmptyStr
    /\ net.query = 2
    /\ parameter_values.status = StatusMsg(EmptyStr, 2)

\* The audio outputs that hold a reference.
AudioOutputs == {s \in {"audio_track_1", "audio_track_2"} : Out[s] # JNull}
\* The references an audio output can hold for track i.
AudioRefs(i) ==
    {Artifact("AudioUrlArtifact", tracks[i].audio_url, None)}
    \cup {Artifact("AudioUrlArtifact", SavedUrl(AudioFilename(i, ts)),
                    Some(AudioFilename(i, ts))) : ts \in 0..MaxClock}
\* The summary has its count line and the two lines of every track.
SummaryCoversAll ==
    /\ Len(Out.result_details) = 8 + 3 * Len(tracks) - 1
    /\ Out.result_details[1] =
          <<Lit("Generated "), JNum(Len(tracks)), Lit(" track variation(s)")>>
    /\ \A i \in 1..Len(tracks) :
          /\ Out.result_details[8 + 3 * (i - 1) + 1] =
                <<JNum(i), Lit(". Duration: "), Fmt(tracks[i].duration), Lit("s")>>
          /\ Out.result_details[8 + 3 * (i - 1) + 2] =
                <<Lit("   Audio: "), Fmt(tracks[i].audio_url)>>

\* No URL of a third or later track is among the downloads.
OnlyFirstTwoDownloaded ==
    \A i \in 3..Len(tracks) :
       /\ tracks[i].audio_url \notin Range(net.download)
       /\ ~Absent(tracks[i].image_url) => tracks[i].image_url \notin Range(net.download)

\* C27: when the success payload yields N > 2 track records with an audio
\* URL, only the first two are materialized and assigned to the audio
\* outputs, no download is made for the third or a later record, the
\* summary's count and per-track lines cover all N records, and the number
\* of audio outputs that are not null is min(N, 2) = 2.
C27_FirstTwoOfMany ==
    Len(tracks) > 2
      => /\ OnlyFirstTwoDownloaded
         /\ Ended
              => /\ Cardinality(AudioOutputs) = 2
                 /\ Out.audio_track_1 \in AudioRefs(1)
                 /\ Out.audio_track_2 \in AudioRefs(2)
                 /\ SummaryCoversAll

====
